---------------------------- MODULE Spec2Model ----------------------------
(***************************************************************************)
(* A model of gui_monitor.py: the two helper functions get_size and        *)
(* get_color_by_usage, the recursive timer update_ui_loop of               *)
(* SystemMonitorApp, and the background thread of start_ping_thread.       *)
(*                                                                         *)
(* Conventions.                                                            *)
(*  - A percentage is an integer number of tenths of a percent (psutil     *)
(*    reports one decimal): 49.9 % is 499, 50 % is 500.                    *)
(*  - A byte count is a Python int, which is unbounded.  It is kept as a   *)
(*    sign and a magnitude in base 1024, least significant limb first:     *)
(*    [neg |-> FALSE, mag |-> <<512, 1>>] is 1536.                         *)
(*  - Python's None is the value PyNone; an f-string renders it "None".    *)
(***************************************************************************)
EXTENDS Integers, Sequences, FiniteSets, TLC

VARIABLES
    call,            \* the last direct call of a helper: [fn, arg, ret]
    ui_pc,           \* where the UI thread is in update_ui_loop
    timers,          \* number of update_ui_loop callbacks pending in Tk's timer
    old_net_io,      \* self.old_net_io: [recv, sent]
    ping_latency,    \* self.ping_latency, shared with the ping thread
    drive_widgets,   \* self.drive_widgets: device name -> index of its frame
    drives_container,\* the frames packed into self.drives_container, in order
    display,         \* the texts and colours of the fixed labels and bars
    p_color,         \* the local p_color of update_ui_loop ("" while unset)
    ping_pc,         \* where the ping thread is in check_ping_logic
    reachable,       \* environment: whether 8.8.8.8:53 accepts a connection now
    hist             \* history of what was sampled, for stating the properties

vars == <<call, ui_pc, timers, old_net_io, ping_latency, drive_widgets,
          drives_container, display, p_color, ping_pc, reachable, hist>>

\* ------------------------------------------------------------------------
\* Configuration (lines 31-54)
\* ------------------------------------------------------------------------
COLOR_GOOD == "#2CC985"
COLOR_WARN == "#F2A33C"
COLOR_CRIT == "#E04F5F"

PyNone == "None"

\* ------------------------------------------------------------------------
\* Byte counts: unbounded integers in base 1024
\* ------------------------------------------------------------------------
factor == 1024

RECURSIVE MagOf(_)
\* The limbs of a natural number n, least significant first.
MagOf(n) == IF n = 0 THEN <<>> ELSE <<n % factor>> \o MagOf(n \div factor)

\* The byte count of a (small) integer i.
FromInt(i) == IF i < 0 THEN [neg |-> TRUE, mag |-> MagOf(0 - i)]
                       ELSE [neg |-> FALSE, mag |-> MagOf(i)]

RECURSIVE ValueOf(_)
\* The natural number of a limb sequence (defined while it fits an integer).
ValueOf(mag) == IF mag = <<>> THEN 0 ELSE Head(mag) + factor * ValueOf(Tail(mag))

\* All limbs above position k (0-based) are zero: the magnitude is < 1024^k.
BelowPow(mag, k) == \A j \in 1..Len(mag) : j > k => mag[j] = 0

RECURSIVE MulSmall(_, _, _)
\* The limbs of mag * m + carry, for a small multiplier m.
MulSmall(mag, m, carry) ==
    IF mag = <<>>
    THEN IF carry = 0 THEN <<>>
         ELSE <<carry % factor>> \o MulSmall(<<>>, m, carry \div factor)
    ELSE LET t == Head(mag) * m + carry
         IN  <<t % factor>> \o MulSmall(Tail(mag), m, t \div factor)

\* The limbs from position k (0-based) upward: the integer part of mag / 1024^k.
DropLow(mag, k) == IF k >= Len(mag) THEN <<>> ELSE SubSeq(mag, k + 1, Len(mag))

\* round(100 * mag / 1024^k), ties to even: what the format ".2f" keeps of the
\* float bytes after k divisions by 1024 (the division by a power of two is exact).
Hundredths(mag, k) ==
    LET m100  == MulSmall(mag, 100, 0)
        whole == ValueOf(DropLow(m100, k))
        top   == IF k >= 1 /\ k <= Len(m100) THEN m100[k] ELSE 0
        rest  == \E j \in 1..Len(m100) : j < k /\ m100[j] # 0
        up    == \/ 2 * top > factor
                 \/ 2 * top = factor /\ (rest \/ whole % 2 = 1)
    IN  IF up THEN whole + 1 ELSE whole

\* The ten bits of a limb, least significant first.
LimbBits(l) == [i \in 1..10 |-> (l \div 2^(i - 1)) % 2]

RECURSIVE BitsOf(_)
BitsOf(mag) == IF mag = <<>> THEN <<>> ELSE LimbBits(Head(mag)) \o BitsOf(Tail(mag))

RECURSIVE LimbsOf(_)
LimbsOf(bits) ==
    IF bits = <<>> THEN <<>>
    ELSE LET n == IF Len(bits) < 10 THEN Len(bits) ELSE 10
             RECURSIVE val(_)
             val(i) == IF i > n THEN 0 ELSE bits[i] + 2 * val(i + 1)
         IN  <<val(1)>> \o LimbsOf(SubSeq(bits, n + 1, Len(bits)))

\* Position of the highest set bit (0 when there is none).
BitLen(bits) ==
    LET set == {i \in 1..Len(bits) : bits[i] = 1}
    IN  IF set = {} THEN 0 ELSE CHOOSE i \in set : \A j \in set : j <= i

RECURSIVE IncBits(_)
IncBits(bits) ==
    IF bits = <<>> THEN <<1>>
    ELSE IF Head(bits) = 0 THEN <<1>> \o Tail(bits)
    ELSE <<0>> \o IncBits(Tail(bits))

\* The int argument becomes a float at the first `bytes /= factor`: Python's
\* true division is correctly rounded to the 53 significant bits of a double,
\* ties to even; the later divisions by 1024 are exact.
ToFloat(mag) ==
    LET bits == BitsOf(mag)
        len  == BitLen(bits)
        d    == len - 53
    IN  IF d <= 0 THEN mag
        ELSE LET kept  == SubSeq(bits, d + 1, len)
                 lower == \E j \in 1..(d - 1) : bits[j] = 1
                 up    == bits[d] = 1 /\ (lower \/ kept[1] = 1)
             IN  LimbsOf([i \in 1..d |-> 0] \o (IF up THEN IncBits(kept) ELSE kept))

\* The value of `bytes` after k passes of the loop: the int itself before the
\* first division, a float afterwards.
AfterDivisions(b, k) == IF k = 0 THEN b ELSE [neg |-> b.neg, mag |-> ToFloat(b.mag)]

TwoDigits(n) == IF n < 10 THEN "0" \o ToString(n) ELSE ToString(n)

\* f"{bytes:.2f}" where bytes is b / 1024^k.
Format2f(b, k) ==
    LET h == Hundredths(AfterDivisions(b, k).mag, k)
    IN  (IF b.neg THEN "-" ELSE "") \o ToString(h \div 100) \o "."
           \o TwoDigits(h % 100)

\* ------------------------------------------------------------------------
\* Helper functions (lines 60-80)
\* ------------------------------------------------------------------------
Units == <<"", "K", "M", "G", "T", "P">>

\* `bytes < factor` after i-1 divisions: a negative value is always below 1024.
LessThanFactor(b, i) == b.neg \/ BelowPow(AfterDivisions(b, i - 1).mag, i)

RECURSIVE get_size_loop(_, _, _)
\* The for loop of get_size from its i-th unit on; falling off the end of the
\* loop the function returns None.
get_size_loop(b, suffix, i) ==
    IF i > Len(Units) THEN PyNone
    ELSE IF LessThanFactor(b, i)
         THEN Format2f(b, i - 1) \o Units[i] \o suffix
         ELSE get_size_loop(b, suffix, i + 1)

get_size(b, suffix) == get_size_loop(b, suffix, 1)

WARN_FROM == 50
CRIT_FROM == 80

\* Faulty variant: the boundaries taken with <= instead of <.
get_color_by_usage_inclusive(percent) ==
    IF percent <= WARN_FROM * 10 THEN COLOR_GOOD
    ELSE IF percent <= CRIT_FROM * 10 THEN COLOR_WARN
    ELSE COLOR_CRIT

\* percent is in tenths of a percent.
get_color_by_usage(percent) ==
    IF percent < WARN_FROM * 10 THEN COLOR_GOOD
    ELSE IF percent < CRIT_FROM * 10 THEN COLOR_WARN
    ELSE COLOR_CRIT


\* ------------------------------------------------------------------------
\* Outcomes of the queries the program makes of psutil and the socket
\* ------------------------------------------------------------------------
Ok(v)  == [ok |-> TRUE, val |-> v]
Raised == [ok |-> FALSE]

Big(mag) == [neg |-> FALSE, mag |-> mag]

\* psutil.cpu_freq() returns None on hosts that expose no frequency.
NoFreq     == [none |-> TRUE]
Freq(mhz)  == [none |-> FALSE, current |-> mhz]

\* ------------------------------------------------------------------------
\* Text formatting of update_ui_loop
\* ------------------------------------------------------------------------
\* str() of a float with one decimal, the percentage p in tenths: 45.0
Pct1(p) == ToString(p \div 10) \o "." \o ToString(p % 10)

\* f"{x:.0f}" of the percentage p in tenths: to the nearest integer, ties to even
Pct0(p) ==
    LET q == p \div 10
        r == p % 10
    IN  ToString(IF r > 5 \/ (r = 5 /\ q % 2 = 1) THEN q + 1 ELSE q)

\* str(timedelta).split('.')[0] for an uptime of secs seconds, below one day
UptimeText(secs) ==
    ToString(secs \div 3600) \o ":" \o TwoDigits((secs \div 60) % 60) \o ":"
        \o TwoDigits(secs % 60)

Bar(fill, color) == [fill |-> fill, color |-> color]

\* A CTkProgressBar starts half filled, in the theme's colour.
NewBar == Bar(500, "theme")

\* ------------------------------------------------------------------------
\* Construction (lines 91-141, 147-284)
\* ------------------------------------------------------------------------
\* min(psutil.cpu_count(), 32) core widgets are built once (line 201).
NumCores == 2

InitDisplay ==
    [lbl_cpu_val   |-> "Used: 0% | Free: 100%",
     lbl_cpu_freq  |-> "Clock: 0 MHz",
     prog_cpu      |-> NewBar,
     core_widgets  |-> [i \in 1..NumCores |->
                          [lbl |-> "Core " \o ToString(i) \o ": 0%", bar |-> NewBar]],
     lbl_ram_text  |-> "Total: 0GB | Used: 0GB | Free: 0GB",
     prog_ram      |-> NewBar,
     lbl_swap_text |-> "Total: 0GB | Used: 0GB | Free: 0GB",
     prog_swap     |-> NewBar,
     lbl_down_val  |-> "0.00 KB/s",
     lbl_up_val    |-> "0.00 KB/s",
     lbl_ping      |-> [text |-> "Ping: -- ms", text_color |-> "theme"],
     lbl_uptime    |-> "System Uptime: ..."]

NoCall == [fn |-> "", arg |-> 0, done |-> FALSE, ret |-> ""]

NoStorage == [done |-> FALSE]

InitHist(net0) ==
    [raised    |-> "",          \* the query whose exception ended the last tick
     published |-> {},          \* what the running (or last) tick has published
     completed |-> FALSE,       \* whether the last tick ran to its last line
     last      |-> <<>>,        \* device -> the usage last read for it
     net       |-> <<net0>>,    \* the last two counter samples, oldest first
     storage   |-> NoStorage,   \* the storage step just taken, until the next step
     drive_failed |-> FALSE,    \* whether a usage query raised in this tick
     probe     |-> "none",      \* the outcome of the last finished probe cycle
     writes    |-> 0]           \* writes of ping_latency in the running cycle

\* The state when __init__ reaches line 141: the ping thread is started and the
\* first tick is about to run as a direct call.
InitApp(In) ==
    /\ ui_pc = "cpu"
    /\ timers = 0
    /\ \E n \in {q \in In.net_io_counters : q.ok} :
          /\ old_net_io = n.val
          /\ hist = InitHist(n.val)
    /\ ping_latency = 0
    /\ drive_widgets = <<>>
    /\ drives_container = <<>>
    /\ display = InitDisplay
    /\ p_color = ""
    /\ ping_pc = "probe"
    /\ reachable \in BOOLEAN

InitOf(In) == call = NoCall /\ InitApp(In)

App == <<ui_pc, timers, old_net_io, ping_latency, drive_widgets,
         drives_container, display, p_color, ping_pc, reachable, hist>>


\* ------------------------------------------------------------------------
\* update_ui_loop (lines 324-428), one action per section
\* ------------------------------------------------------------------------
\* An exception that nothing catches ends the running tick where it is: what
\* was configured so far stays, line 428 is never reached and no timer is
\* armed.  (Tk reports the exception of a timer callback and keeps serving
\* events; the first tick runs inside __init__, whose exception ends the
\* program.)
Escapes(query) ==
    /\ ui_pc' = "idle"
    /\ hist' = [hist EXCEPT !.raised = query, !.storage = NoStorage]

Proceeds(next, metric) ==
    /\ ui_pc' = next
    /\ hist' = [hist EXCEPT !.published = @ \cup {metric}, !.storage = NoStorage]

\* Lines 346-352: the core bars, for the cores that have a widget.
UpdateCores(widgets, cores) ==
    [i \in DOMAIN widgets |->
        IF i <= Len(cores)
        THEN [lbl |-> "Core " \o ToString(i) \o ": " \o Pct0(cores[i]) \o "%",
              bar |-> Bar(cores[i], get_color_by_usage(cores[i]))]
        ELSE widgets[i]]

\* Lines 331-352.
TickCpu(In) ==
    /\ ui_pc = "cpu"
    /\ \E pct \in In.cpu_percent, fr \in In.cpu_freq, cores \in In.percpu :
        LET d1 == [display EXCEPT !.lbl_cpu_val =
                      "Used: " \o Pct1(pct.val) \o "% | Free: "
                          \o Pct1(1000 - pct.val) \o "%"]
            d2 == [d1 EXCEPT
                      !.lbl_cpu_freq = "Clock: " \o ToString(fr.val.current) \o " MHz",
                      !.prog_cpu = Bar(pct.val, get_color_by_usage(pct.val))]
            d3 == [d2 EXCEPT !.core_widgets = UpdateCores(@, cores.val)]
        IN  IF ~pct.ok
            THEN Escapes("cpu_percent") /\ UNCHANGED display
            ELSE IF ~fr.ok \/ fr.val.none
            THEN Escapes("cpu_freq") /\ display' = d1
            ELSE IF ~cores.ok
            THEN Escapes("cpu_percent(percpu)") /\ display' = d2
            ELSE Proceeds("mem", "cpu") /\ display' = d3
    /\ UNCHANGED <<call, timers, old_net_io, ping_latency, drive_widgets,
                   drives_container, p_color, ping_pc, reachable>>

\* Lines 354-365.
TickMemory(In) ==
    /\ ui_pc = "mem"
    /\ \E mem \in In.virtual_memory, swap \in In.swap_memory :
        LET m  == mem.val
            w  == swap.val
            d1 == [display EXCEPT
                      !.lbl_ram_text =
                          "Total: " \o get_size(m.total, "B") \o " | Used: "
                            \o get_size(m.used, "B") \o " (" \o Pct1(m.percent)
                            \o "%) | Free: " \o get_size(m.available, "B"),
                      !.prog_ram = Bar(m.percent, get_color_by_usage(m.percent)),
                      !.lbl_swap_text =
                          "Total: " \o get_size(w.total, "B") \o " | Used: "
                            \o get_size(w.used, "B") \o " (" \o Pct1(w.percent) \o "%)",
                      !.prog_swap = Bar(w.percent, get_color_by_usage(w.percent))]
        IN  IF ~mem.ok
            THEN Escapes("virtual_memory") /\ UNCHANGED display
            ELSE IF ~swap.ok
            THEN Escapes("swap_memory") /\ UNCHANGED display
            ELSE Proceeds("storage", "memory") /\ display' = d1
    /\ UNCHANGED <<call, timers, old_net_io, ping_latency, drive_widgets,
                   drives_container, p_color, ping_pc, reachable>>


\* Lines 380-396: a new frame for a drive, packed last into the container.
NewDriveFrame(drive_name) ==
    [lbl_name |-> drive_name, bar |-> NewBar, lbl_det |-> ""]

\* Line 403.
DriveText(usage) ==
    Pct1(usage.percent) \o "% (" \o get_size(usage.used, "B") \o " / "
        \o get_size(usage.total, "B") \o ")"

\* Line 373: the partitions the loop passes over without a query.
Filtered(p) == "cdrom" \in p.opts \/ p.fstype = ""

\* Faulty variant: a frame is built at every reading, the membership test forgotten.
ShowDrive_always_new(reg, drive_name, usage) ==
    LET dc1 == Append(reg.dc, NewDriveFrame(drive_name))
        dw1 == [d \in DOMAIN reg.dw \cup {drive_name} |->
                   IF d = drive_name THEN Len(dc1) ELSE reg.dw[d]]
    IN  [dw |-> dw1,
         dc |-> [dc1 EXCEPT ![Len(dc1)] =
                    [@ EXCEPT !.bar = Bar(usage.percent,
                                          get_color_by_usage(usage.percent)),
                              !.lbl_det = DriveText(usage)]]]

\* Lines 375-403, the body of the try for one partition whose usage was read.
\* reg is [dw |-> drive_widgets, dc |-> drives_container].
ShowDrive(reg, drive_name, usage) ==
    LET known == drive_name \in DOMAIN reg.dw
        dc1   == IF known THEN reg.dc
                 ELSE Append(reg.dc, NewDriveFrame(drive_name))
        dw1   == IF known THEN reg.dw
                 ELSE reg.dw @@ (drive_name :> Len(dc1))
        at    == dw1[drive_name]
    IN  [dw |-> dw1,
         dc |-> [dc1 EXCEPT ![at] =
                    [@ EXCEPT !.bar = Bar(usage.percent,
                                          get_color_by_usage(usage.percent)),
                              !.lbl_det = DriveText(usage)]]]

\* Lines 370-405, one pass of the loop: `continue` for a filtered partition, and
\* `except: continue` when psutil.disk_usage raises.
StorageStep(reg, p) ==
    IF Filtered(p) THEN reg
    ELSE IF ~p.usage.ok THEN reg
    ELSE ShowDrive(reg, p.device, p.usage.val)

RECURSIVE StorageLoop(_, _)
StorageLoop(reg, partitions) ==
    IF partitions = <<>> THEN reg
    ELSE StorageLoop(StorageStep(reg, Head(partitions)), Tail(partitions))

\* History: the usage last read for each device among the partitions of a tick.
ReadAt(partitions) ==
    {i \in 1..Len(partitions) : ~Filtered(partitions[i]) /\ partitions[i].usage.ok}

UsageRaised(partitions) ==
    {i \in 1..Len(partitions) : ~Filtered(partitions[i]) /\ ~partitions[i].usage.ok}

LastRead(last, partitions) ==
    LET devs == {partitions[i].device : i \in ReadAt(partitions)}
        at(d) == CHOOSE i \in ReadAt(partitions) :
                    /\ partitions[i].device = d
                    /\ \A j \in ReadAt(partitions) :
                          partitions[j].device = d => j <= i
    IN  [d \in devs \cup DOMAIN last |->
            IF d \in devs THEN partitions[at(d)].usage.val ELSE last[d]]

\* Lines 367-405.
TickStorage(In) ==
    /\ ui_pc = "storage"
    /\ \E partitions \in In.disk_partitions :
        IF ~partitions.ok
        THEN Escapes("disk_partitions")
             /\ UNCHANGED <<drive_widgets, drives_container>>
        ELSE LET reg == StorageLoop([dw |-> drive_widgets, dc |-> drives_container],
                                    partitions.val)
             IN  /\ drive_widgets' = reg.dw
                 /\ drives_container' = reg.dc
                 /\ ui_pc' = "net"
                 /\ hist' = [hist EXCEPT
                       !.published = @ \cup {"storage"},
                       !.last = LastRead(@, partitions.val),
                       !.drive_failed = UsageRaised(partitions.val) # {},
                       !.storage = [done |-> TRUE, partitions |-> partitions.val,
                                    dw |-> drive_widgets, dc |-> drives_container]]
    /\ UNCHANGED <<call, timers, old_net_io, ping_latency, display, p_color,
                   ping_pc, reachable>>

\* Faulty variant: the subtraction the wrong way round.
rate_reversed(new_counter, old_counter) == old_counter - new_counter

\* Lines 410-411: the bytes since the previous sample.
rate(new_counter, old_counter) == new_counter - old_counter

\* Lines 407-415.
TickNetwork(In) ==
    /\ ui_pc = "net"
    /\ \E new_net \in In.net_io_counters :
        IF ~new_net.ok
        THEN Escapes("net_io_counters") /\ UNCHANGED <<old_net_io, display>>
        ELSE LET ds == rate(new_net.val.bytes_recv, old_net_io.bytes_recv)
                 us == rate(new_net.val.bytes_sent, old_net_io.bytes_sent)
             IN  /\ old_net_io' = new_net.val
                 /\ display' = [display EXCEPT
                       !.lbl_down_val = get_size(FromInt(ds), "B") \o "/s",
                       !.lbl_up_val = get_size(FromInt(us), "B") \o "/s"]
                 /\ ui_pc' = "ping"
                 /\ hist' = [hist EXCEPT
                       !.published = @ \cup {"network"},
                       !.net = <<@[Len(@)], new_net.val>>,
                       !.storage = NoStorage]
    /\ UNCHANGED <<call, timers, ping_latency, drive_widgets, drives_container,
                   p_color, ping_pc, reachable>>

\* Lines 418-419: the first read of self.ping_latency.
TickPingTest ==
    /\ ui_pc = "ping"
    /\ IF ping_latency = -1
       THEN /\ display' = [display EXCEPT !.lbl_ping =
                  [text |-> "Ping: Offline", text_color |-> COLOR_CRIT]]
            /\ ui_pc' = "uptime"
            /\ hist' = [hist EXCEPT !.published = @ \cup {"ping"}]
       ELSE /\ ui_pc' = "ping_color"
            /\ UNCHANGED <<display, hist>>
    /\ UNCHANGED <<call, timers, old_net_io, ping_latency, drive_widgets,
                   drives_container, p_color, ping_pc, reachable>>

PING_SLOW == 100

\* Line 421: the second read of self.ping_latency.
TickPingColor ==
    /\ ui_pc = "ping_color"
    /\ p_color' = IF ping_latency < PING_SLOW THEN COLOR_GOOD ELSE COLOR_WARN
    /\ ui_pc' = "ping_text"
    /\ UNCHANGED <<call, timers, old_net_io, ping_latency, drive_widgets,
                   drives_container, display, ping_pc, reachable, hist>>

\* Line 422: the third read of self.ping_latency (whole milliseconds).
TickPingText ==
    /\ ui_pc = "ping_text"
    /\ display' = [display EXCEPT !.lbl_ping =
          [text |-> "Ping (Google): " \o ToString(ping_latency) \o " ms",
           text_color |-> p_color]]
    /\ p_color' = ""
    /\ ui_pc' = "uptime"
    /\ hist' = [hist EXCEPT !.published = @ \cup {"ping"}]
    /\ UNCHANGED <<call, timers, old_net_io, ping_latency, drive_widgets,
                   drives_container, ping_pc, reachable>>

\* Faulty variant: the successor armed twice.
after_twice(n) == n + 2

\* Line 428: self.after(REFRESH_RATE, self.update_ui_loop).
after(n) == n + 1

\* Lines 424-428 with get_system_uptime (lines 290-293).
TickUptime(In) ==
    /\ ui_pc = "uptime"
    /\ \E up \in In.uptime :
        IF ~up.ok
        THEN Escapes("boot_time") /\ UNCHANGED <<display, timers>>
        ELSE /\ display' = [display EXCEPT !.lbl_uptime =
                    "System Uptime: " \o UptimeText(up.val)]
             /\ timers' = after(timers)
             /\ ui_pc' = "idle"
             /\ hist' = [hist EXCEPT !.published = @ \cup {"uptime"},
                                     !.completed = TRUE]
    /\ UNCHANGED <<call, old_net_io, ping_latency, drive_widgets,
                   drives_container, p_color, ping_pc, reachable>>

\* Tk's main loop runs a due timer callback when the UI thread is idle.
TimerFires ==
    /\ ui_pc = "idle"
    /\ timers > 0
    /\ timers' = timers - 1
    /\ ui_pc' = "cpu"
    /\ hist' = [hist EXCEPT !.published = {}, !.completed = FALSE,
                            !.drive_failed = FALSE]
    /\ UNCHANGED <<call, old_net_io, ping_latency, drive_widgets,
                   drives_container, display, p_color, ping_pc, reachable>>

\* ------------------------------------------------------------------------
\* check_ping_logic (lines 300-314), the body of the daemon thread
\* ------------------------------------------------------------------------
\* Lines 302-312: one probe.  The connect succeeds within the timeout when the
\* endpoint is reachable, and the elapsed milliseconds are stored; any
\* exception stores -1.
Probe(In) ==
    /\ ping_pc = "probe"
    /\ IF reachable
       THEN \E ms \in In.latency : ping_latency' = ms
       ELSE ping_latency' = -1
    /\ ping_pc' = "sleep"
    /\ hist' = [hist EXCEPT !.probe = IF reachable THEN "ok" ELSE "failed",
                            !.writes = @ + 1]
    /\ UNCHANGED <<call, ui_pc, timers, old_net_io, drive_widgets,
                   drives_container, display, p_color, reachable>>

\* Faulty variant: the loop left after a failed probe.
Sleep_gives_up ==
    /\ ping_pc = "sleep"
    /\ ping_pc' = IF ping_latency = -1 THEN "returned" ELSE "probe"
    /\ hist' = [hist EXCEPT !.writes = 0]
    /\ UNCHANGED <<call, ui_pc, timers, old_net_io, ping_latency, drive_widgets,
                   drives_container, display, p_color, reachable>>

\* Line 314: time.sleep(1), then the next pass of `while True`.
Sleep ==
    /\ ping_pc = "sleep"
    /\ ping_pc' = "probe"
    /\ hist' = [hist EXCEPT !.writes = 0]
    /\ UNCHANGED <<call, ui_pc, timers, old_net_io, ping_latency, drive_widgets,
                   drives_container, display, p_color, reachable>>

\* Environment: the endpoint becomes reachable or unreachable.
NetworkChanges ==
    /\ reachable' = ~reachable
    /\ UNCHANGED <<call, ui_pc, timers, old_net_io, ping_latency, drive_widgets,
                   drives_container, display, p_color, ping_pc, hist>>


\* ------------------------------------------------------------------------
\* Direct calls of the helper functions
\* ------------------------------------------------------------------------
\* A call is [fn, arg, done, ret]: chosen by the initial state, made by the
\* action, which stores what the function returns.
Pending(fn, arg) == [fn |-> fn, arg |-> arg, done |-> FALSE, ret |-> ""]

CallGetColor ==
    /\ call.fn = "get_color_by_usage" /\ ~call.done
    /\ call' = [call EXCEPT !.done = TRUE, !.ret = get_color_by_usage(call.arg)]
    /\ UNCHANGED App

CallGetSize ==
    /\ call.fn = "get_size" /\ ~call.done
    /\ call' = [call EXCEPT !.done = TRUE, !.ret = get_size(call.arg, "B")]
    /\ UNCHANGED App

\* ------------------------------------------------------------------------
\* Inputs
\* ------------------------------------------------------------------------
MaxPartitions == 2      \* length of the list psutil.disk_partitions() returns
MaxLimbs == 7           \* base-1024 digits of a byte count given to get_size
OverRange == 50         \* tenths of a percent tried below 0 % and above 100 %

SeqsUpTo(S, n) == UNION {[1..k -> S] : k \in 0..n}

Percents == (0 - OverRange)..(1000 + OverRange)

SampleLimbs == {0, 512, 1023}

Sizes == {Big(m) : m \in SeqsUpTo(SampleLimbs, MaxLimbs)}
            \cup {FromInt(i) : i \in {1, 1024, 1029, 1030, 1536, 1048575, 1073741824}}
            \cup {Big(<<0, 0, 0, 0, 0, 0, 1>>), Big(<<1023, 1023, 1023, 1023, 1023, 1023>>)}
            \cup {FromInt(0 - i) : i \in {1, 50, 2048}}

GiB(n) == Big(<<0, 0, 0, n>>)

Usage(total, used, percent) == [total |-> total, used |-> used, percent |-> percent]

Partition(device, fstype, opts, usage) ==
    [device |-> device, fstype |-> fstype, opts |-> opts, usage |-> usage]

Disk(device, usage) == Partition(device, "NTFS", {"rw", "fixed"}, usage)

Counters(recv, sent) == [bytes_recv |-> recv, bytes_sent |-> sent]

Memory(total, used, available, percent) ==
    [total |-> total, used |-> used, available |-> available, percent |-> percent]

\* The outcomes of psutil.disk_partitions(): any list of up to MaxPartitions of
\* the given partitions.
Lists(partitions) == {Ok(l) : l \in SeqsUpTo(partitions, MaxPartitions)}

DiskC == Disk("C:", Ok(Usage(GiB(100), GiB(30), 300)))

\* A host on which every query answers, always the same.
Quiet ==
    [cpu_percent     |-> {Ok(450)},
     cpu_freq        |-> {Ok(Freq(2400))},
     percpu          |-> {Ok(<<450, 820>>)},
     virtual_memory  |-> {Ok(Memory(GiB(8), GiB(4), GiB(4), 500))},
     swap_memory     |-> {Ok(Memory(GiB(2), GiB(0), GiB(2), 0))},
     disk_partitions |-> Lists({DiskC}),
     net_io_counters |-> {Ok(Counters(100, 200))},
     uptime          |-> {Ok(3661)},
     latency         |-> {30}]

\* A host on which any query may fail, and whose counters move either way.
Faulty ==
    [Quiet EXCEPT
       !.cpu_percent     = @ \cup {Raised},
       !.cpu_freq        = @ \cup {Ok(NoFreq), Raised},
       !.percpu          = @ \cup {Raised},
       !.virtual_memory  = @ \cup {Raised},
       !.swap_memory     = @ \cup {Raised},
       !.disk_partitions = Lists({DiskC, Disk("D:", Raised)}) \cup {Raised},
       !.net_io_counters = @ \cup {Ok(Counters(150, 250)), Raised},
       !.uptime          = @ \cup {Raised},
       !.latency         = @ \cup {150}]

\* A virtual machine: psutil.cpu_freq() has nothing to report on some ticks.
Virtual ==
    [Quiet EXCEPT
       !.cpu_freq        = @ \cup {Ok(NoFreq)},
       !.net_io_counters = @ \cup {Ok(Counters(150, 250))},
       !.latency         = @ \cup {150}]

\* A host whose drives come and go: two disks with changing usage, a drive
\* whose usage cannot be read, an optical drive and an unformatted one.
Removable ==
    [Quiet EXCEPT
       !.disk_partitions =
           Lists({DiskC,
                  Disk("C:", Ok(Usage(GiB(100), GiB(90), 900))),
                  Disk("D:", Ok(Usage(GiB(10), GiB(5), 500))),
                  Disk("D:", Raised),
                  Partition("E:", "CDFS", {"ro", "cdrom"}, Raised),
                  Partition("F:", "", {"rw"}, Raised)})]

\* ------------------------------------------------------------------------
\* Specifications
\* ------------------------------------------------------------------------
NextOf(In) ==
    \/ TickCpu(In)
    \/ TickMemory(In)
    \/ TickStorage(In)
    \/ TickNetwork(In)
    \/ TickPingTest
    \/ TickPingColor
    \/ TickPingText
    \/ TickUptime(In)
    \/ TimerFires
    \/ Probe(In)
    \/ Sleep
    \/ NetworkChanges

Init == InitOf(Faulty)
Next == NextOf(Faulty)
Spec == Init /\ [][Next]_vars

\* The program on the host whose drives come and go.
SpecDrives == InitOf(Removable) /\ [][NextOf(Removable)]_vars

\* The program on the virtual machine.
SpecVirtual == InitOf(Virtual) /\ [][NextOf(Virtual)]_vars

\* The ping thread is a thread of the operating system, which keeps scheduling
\* it: each of its steps, once possible, is eventually taken.
LiveSpec == Spec /\ WF_vars(Probe(Faulty)) /\ WF_vars(Sleep)

\* The helper functions alone, called with arguments from bounded sets.
InitPure ==
    /\ InitApp(Quiet)
    /\ reachable
    /\ call \in {Pending("get_color_by_usage", p) : p \in Percents}
                  \cup {Pending("get_size", b) : b \in Sizes}
NextPure == CallGetColor \/ CallGetSize
SpecPure == InitPure /\ [][NextPure]_vars


\* ------------------------------------------------------------------------
\* Properties
\* ------------------------------------------------------------------------

\* C1: get_color_by_usage returns a colour for every percentage, and which one
\* depends on the percentage alone: green exactly below 50, orange exactly from
\* 50 up to but excluding 80, red exactly from 80 on; so 50 is orange, 80 is
\* red, a value below 0 is green and a value above 100 is red.
C1_Classification ==
    call.fn = "get_color_by_usage" /\ call.done =>
        /\ call.ret \in {COLOR_GOOD, COLOR_WARN, COLOR_CRIT}
        /\ call.ret = COLOR_GOOD <=> call.arg < 500
        /\ call.ret = COLOR_WARN <=> (500 <= call.arg /\ call.arg < 800)
        /\ call.ret = COLOR_CRIT <=> call.arg >= 800

C1_BoundaryClassified ==
    /\ call = [fn |-> "get_color_by_usage", arg |-> 500, done |-> TRUE,
               ret |-> COLOR_WARN]

\* The unit the exact quotient selects: k is the smallest index with
\* n / 1024^k < 1024.
SmallestUnit(mag, k) == BelowPow(mag, k + 1) /\ (k = 0 \/ ~BelowPow(mag, k))

\* C2: for every non-negative byte count n, get_size returns the number
\* n / 1024^k with two decimals followed by the k-th unit of "", K, M, G, T, P
\* and the suffix, k being the smallest index with n / 1024^k < 1024; 0 gives
\* "0.00B", 1024 "1.00KB", 1536 "1.50KB" and 1073741824 "1.00GB".
C2_GetSizeFormats ==
    call.fn = "get_size" /\ call.done /\ ~call.arg.neg =>
        /\ \E k \in 0..(Len(Units) - 1) :
              /\ SmallestUnit(call.arg.mag, k)
              /\ call.ret = Format2f(call.arg, k) \o Units[k + 1] \o "B"
        /\ call.arg = FromInt(0) => call.ret = "0.00B"
        /\ call.arg = FromInt(1024) => call.ret = "1.00KB"
        /\ call.arg = FromInt(1536) => call.ret = "1.50KB"
        /\ call.arg = FromInt(1073741824) => call.ret = "1.00GB"

\* What C2 gets right: below 1024^6 - 2^6 (from where the float of the count is
\* 2^60) the result is as the claim says.
C2_BelowOneExbibyte ==
    call.fn = "get_size" /\ call.done /\ ~call.arg.neg /\ call.ret # PyNone =>
        /\ \E k \in 0..(Len(Units) - 1) :
              /\ SmallestUnit(call.arg.mag, k)
              /\ call.ret = Format2f(call.arg, k) \o Units[k + 1] \o "B"
        /\ call.arg = FromInt(0) => call.ret = "0.00B"
        /\ call.arg = FromInt(1024) => call.ret = "1.00KB"
        /\ call.arg = FromInt(1536) => call.ret = "1.50KB"
        /\ call.arg = FromInt(1073741824) => call.ret = "1.00GB"

RateText(bytes) == get_size(FromInt(bytes), "B") \o "/s"

\* C3: the download and upload rates a tick publishes are the counters it
\* read minus the counters the tick before it read (those __init__ read, for
\* the first tick), and it keeps the counters it read for the next tick; so
\* unchanged counters give a rate of exactly 0 both ways, and (100, 200)
\* followed by (150, 250) gives (50, 50).
C3_NetworkRate ==
    LET cur  == hist.net[Len(hist.net)]
        prev == hist.net[1]
    IN  /\ old_net_io = cur
        /\ Len(hist.net) = 1 =>
              /\ display.lbl_down_val = InitDisplay.lbl_down_val
              /\ display.lbl_up_val = InitDisplay.lbl_up_val
        /\ Len(hist.net) = 2 =>
              /\ display.lbl_down_val = RateText(cur.bytes_recv - prev.bytes_recv)
              /\ display.lbl_up_val = RateText(cur.bytes_sent - prev.bytes_sent)
              /\ cur = prev =>
                    /\ display.lbl_down_val = "0.00B/s"
                    /\ display.lbl_up_val = "0.00B/s"
              /\ prev = Counters(100, 200) /\ cur = Counters(150, 250) =>
                    /\ display.lbl_down_val = "50.00B/s"
                    /\ display.lbl_up_val = "50.00B/s"

C3_RatePublished ==
    /\ ui_pc = "ping"
    /\ hist.net = <<Counters(100, 200), Counters(150, 250)>>
    /\ display.lbl_down_val = "50.00B/s"
    /\ display.lbl_up_val = "50.00B/s"
    /\ old_net_io = Counters(150, 250)

C3_UnchangedCountersSeen ==
    /\ ui_pc = "ping"
    /\ hist.net = <<Counters(150, 250), Counters(150, 250)>>
    /\ display.lbl_down_val = "0.00B/s"

\* C4: a tick that reads a counter lower than the one kept from the tick
\* before does not stop there, and the rate it publishes for that direction
\* is 0, never a negative number.
C4_RateClamped ==
    Len(hist.net) = 2 =>
        LET cur  == hist.net[2]
            prev == hist.net[1]
        IN  /\ cur.bytes_recv < prev.bytes_recv => display.lbl_down_val = "0.00B/s"
            /\ cur.bytes_sent < prev.bytes_sent => display.lbl_up_val = "0.00B/s"

\* What C4 gets right: the tick goes on after a counter went down; the rate it
\* shows is the negative difference.
C4_NegativeRateShown ==
    Len(hist.net) = 2 /\ hist.net[2].bytes_recv < hist.net[1].bytes_recv =>
        display.lbl_down_val = "-50.00B/s"

\* C5: the drive registry holds exactly one entry, with one frame, for each
\* device whose usage was ever read; the entry of a device read again shows
\* the values read last, no second frame is built for it, and no entry or
\* frame is ever dropped.
C5_DriveRegistry ==
    /\ DOMAIN drive_widgets = DOMAIN hist.last
    /\ Len(drives_container) = Cardinality(DOMAIN hist.last)
    /\ \A d \in DOMAIN drive_widgets :
          /\ drive_widgets[d] \in 1..Len(drives_container)
          /\ drives_container[drive_widgets[d]].lbl_name = d
          /\ drives_container[drive_widgets[d]].bar.fill = hist.last[d].percent
          /\ drives_container[drive_widgets[d]].lbl_det = DriveText(hist.last[d])
    /\ hist.storage.done =>
          /\ DOMAIN hist.storage.dw \subseteq DOMAIN drive_widgets
          /\ \A d \in DOMAIN hist.storage.dw :
                drive_widgets[d] = hist.storage.dw[d]
          /\ Len(hist.storage.dc) <= Len(drives_container)

C5_KnownDriveReadAgain ==
    /\ hist.storage.done
    /\ DOMAIN hist.storage.dw = {"C:", "D:"}
    /\ hist.storage.dc[hist.storage.dw["C:"]].bar.fill = 300
    /\ drives_container[drive_widgets["C:"]].bar.fill = 900
    /\ Len(drives_container) = 2


\* The devices of a tick's partitions whose usage query raised and was not
\* read through another partition in the same tick.
OnlyFailed(partitions) ==
    {partitions[i].device : i \in UsageRaised(partitions)}
        \ {partitions[i].device : i \in ReadAt(partitions)}

\* The first three parts of C6, which hold: a drive whose usage query raised
\* gets no entry if it had none and keeps its frame as it was if it had one,
\* the drives read in the same tick show what was read, and the tick is at its
\* network step.
C6_FailedDriveOnlySkipped ==
    hist.storage.done =>
        /\ \A d \in OnlyFailed(hist.storage.partitions) :
              /\ d \notin DOMAIN hist.storage.dw => d \notin DOMAIN drive_widgets
              /\ d \in DOMAIN hist.storage.dw =>
                    /\ d \in DOMAIN drive_widgets
                    /\ drives_container[drive_widgets[d]]
                          = hist.storage.dc[hist.storage.dw[d]]
        /\ \A i \in ReadAt(hist.storage.partitions) :
              LET d == hist.storage.partitions[i].device
              IN  /\ d \in DOMAIN drive_widgets
                  /\ drives_container[drive_widgets[d]].lbl_det
                        = DriveText(hist.last[d])
        /\ ui_pc = "net"

\* C6: when the usage query of a drive raises in a tick, only that drive is
\* skipped: it gets no entry if it had none, its entry keeps what it showed,
\* the other drives of the tick are still shown, and the tick goes on through
\* the network, ping and uptime steps and arms its successor.
C6_DriveFailureContained ==
    /\ C6_FailedDriveOnlySkipped
    /\ hist.drive_failed /\ ui_pc = "idle" =>
          /\ timers = 1
          /\ {"network", "ping", "uptime"} \subseteq hist.published

Metrics == {"cpu", "memory", "storage", "network", "ping", "uptime"}

\* C7: a query other than a drive's that fails or has no value does not stop
\* the tick: the tick publishes every metric (a placeholder for the failed
\* one) and arms its successor, so no exception leaves a tick and an idle UI
\* thread always has its next tick pending.
C7_TickDegrades ==
    /\ hist.raised = ""
    /\ ui_pc = "idle" => timers = 1 /\ hist.published = Metrics

\* The first half of C8, which holds: a probe that fails stores -1, and a tick
\* whose test on line 418 reads -1 shows "Offline" in the critical colour.
C8_FailedProbeStoresSentinel ==
    /\ [](ping_pc = "sleep" /\ hist.probe = "failed" => ping_latency = -1)
    /\ [][ui_pc = "ping" /\ ui_pc' # "ping" /\ ping_latency = -1 =>
            display'.lbl_ping = [text |-> "Ping: Offline",
                                 text_color |-> COLOR_CRIT]]_vars

\* C8: a probe that fails stores -1 in ping_latency, the label of a tick that
\* reads -1 is "Offline" in the critical colour, and a number of
\* milliseconds is shown only for a value that is not -1.
C8_SentinelShownOffline ==
    /\ ping_pc = "sleep" /\ hist.probe = "failed" => ping_latency = -1
    /\ display.lbl_ping.text = "Ping: Offline" =>
          display.lbl_ping.text_color = COLOR_CRIT
    /\ display.lbl_ping.text # "Ping (Google): " \o ToString(0 - 1) \o " ms"

\* C9: ticks never overlap: the successor is armed by the last line of a tick
\* and by nothing else, so no timer is pending while a tick runs, at most one
\* is pending at any time, and a tick that ran to its end leaves exactly one.
C9_NoOverlappingTicks ==
    /\ timers \in {0, 1}
    /\ ui_pc # "idle" => timers = 0
    /\ ui_pc = "idle" /\ hist.completed => timers = 1
    /\ timers = 1 => hist.completed

C9_SuccessorPending ==
    /\ ui_pc = "idle"
    /\ hist.completed
    /\ timers = 1
    /\ hist.published = Metrics

\* C10: the ping thread never ends by itself and retries whatever the
\* outcome: a cycle stores ping_latency exactly once, then sleeps, then a new
\* cycle starts; so a failed probe is always followed by another one, and
\* once the endpoint is reachable for good, ping_latency ends up different
\* from -1.
C10_ProberRetries ==
    /\ [](ping_pc \in {"probe", "sleep"})
    /\ [](ping_pc = "sleep" => hist.writes = 1)
    /\ [](ping_pc = "probe" => hist.writes = 0)
    /\ (ping_pc = "sleep") ~> (ping_pc = "probe")
    /\ (ping_pc = "probe") ~> (ping_pc = "sleep")
    /\ (ping_pc = "sleep" /\ hist.probe = "failed") ~> (ping_pc = "probe")
    /\ <>[]reachable => <>[](ping_latency # -1)

C10_RecoveredAfterFailure ==
    /\ display.lbl_ping.text = "Ping: Offline"
    /\ hist.probe = "ok"
    /\ ping_pc = "sleep"
    /\ ping_latency = 30
    /\ reachable

\* The label of the ping line shows a number of milliseconds.
ShowsLatency == display.lbl_ping.text \notin {"Ping: -- ms", "Ping: Offline"}

\* C11: in every interleaving of the ping thread and the tick, a tick writes a
\* number of milliseconds on the ping line only when a probe cycle has already
\* stored its result and the last cycle that did so succeeded; in particular,
\* as long as no cycle has stored a result the ping line shows no number.
C11_LatencyIsMeasured ==
    /\ [][ui_pc = "ping_text" /\ ui_pc' # "ping_text" => hist.probe = "ok"]_vars
    /\ [](hist.probe = "none" => ~ShowsLatency)

=============================================================================
